---------------------------- MODULE Spec2Model ----------------------------
(***************************************************************************)
(* Model of CurioPulse (src/main.py): model discovery, the generation      *)
(* fallback chain, the news summary alignment and the YouTube selection.   *)
(*                                                                         *)
(* Strings are sequences of one-character tokens.  Tokens standing for     *)
(* characters outside ASCII: "KI" and "JI" are the two characters of the   *)
(* item label that line 111 strips, "FWCOLON" is the full-width colon.     *)
(* "models/gemini-" is one token, the prefix all model names share.        *)
(***************************************************************************)
EXTENDS Integers, Sequences, FiniteSets, TLC

VARIABLES pc, listed, DYNAMIC_MODELS, caller, selected, candidates, count,
          idx, trace, ai_res, result

vars == <<pc, listed, DYNAMIC_MODELS, caller, selected, candidates, count,
          idx, trace, ai_res, result>>

(***************************************************************************)
(* Bounds                                                                  *)
(***************************************************************************)
MaxListing == 3
MaxCount == 3
MaxCand == 5
MaxSegLen == 5

(***************************************************************************)
(* Strings                                                                 *)
(***************************************************************************)
Min(a, b) == IF a < b THEN a ELSE b

Whitespace == {" ", "\n", "\t"}

Digits == {"0", "1", "2", "3", "4", "5", "6", "7", "8", "9"}

DigitVal(c) ==
  CASE c = "0" -> 0 [] c = "1" -> 1 [] c = "2" -> 2 [] c = "3" -> 3
    [] c = "4" -> 4 [] c = "5" -> 5 [] c = "6" -> 6 [] c = "7" -> 7
    [] c = "8" -> 8 [] c = "9" -> 9

RECURSIVE LStrip(_)
LStrip(s) ==
  IF s # <<>> /\ Head(s) \in Whitespace THEN LStrip(Tail(s)) ELSE s

RECURSIVE RStrip(_)
RStrip(s) ==
  IF s # <<>> /\ s[Len(s)] \in Whitespace
    THEN RStrip(SubSeq(s, 1, Len(s) - 1))
    ELSE s

\* str.strip()
Strip(s) == RStrip(LStrip(s))

\* pat occurs in s at position i (1-based)
MatchAt(s, pat, i) ==
  /\ i + Len(pat) - 1 <= Len(s)
  /\ \A k \in 1..Len(pat) : s[i + k - 1] = pat[k]

\* pat in s
Contains(s, pat) == \E i \in 1..(Len(s) + 1) : MatchAt(s, pat, i)

\* str.split(sep): leftmost non-overlapping occurrences of sep
RECURSIVE Split(_, _)
Split(s, sep) ==
  IF Contains(s, sep)
    THEN LET i == CHOOSE j \in 1..Len(s) :
                    /\ MatchAt(s, sep, j)
                    /\ \A k \in 1..(j - 1) : ~MatchAt(s, sep, k)
         IN <<SubSeq(s, 1, i - 1)>> \o Split(SubSeq(s, i + Len(sep), Len(s)), sep)
    ELSE <<s>>

\* str.lower() on the characters used in model names
LowerChar(c) ==
  CASE c = "F" -> "f" [] c = "L" -> "l" [] c = "A" -> "a" [] c = "S" -> "s"
    [] c = "H" -> "h" [] OTHER -> c

Lower(s) == [i \in 1..Len(s) |-> LowerChar(s[i])]

\* code point order of the characters used in model names
Ord(c) ==
  CASE c = "-" -> 45 [] c = "." -> 46 [] c = "0" -> 48 [] c = "1" -> 49
    [] c = "2" -> 50 [] c = "5" -> 53 [] c = "A" -> 65 [] c = "F" -> 70
    [] c = "H" -> 72 [] c = "L" -> 76 [] c = "S" -> 83 [] c = "a" -> 97
    [] c = "f" -> 102 [] c = "h" -> 104 [] c = "l" -> 108
    [] c = "models/gemini-" -> 109 [] c = "o" -> 111 [] c = "p" -> 112
    [] c = "r" -> 114 [] c = "s" -> 115

\* a < b for Python strings
RECURSIVE StrLess(_, _)
StrLess(a, b) ==
  IF b = <<>> THEN FALSE
  ELSE IF a = <<>> THEN TRUE
  ELSE IF Head(a) = Head(b) THEN StrLess(Tail(a), Tail(b))
  ELSE Ord(Head(a)) < Ord(Head(b))

\* insert x into a list sorted in descending order
RECURSIVE InsertDesc(_, _)
InsertDesc(x, s) ==
  IF s = <<>> THEN <<x>>
  ELSE IF StrLess(x, Head(s)) THEN <<Head(s)>> \o InsertDesc(x, Tail(s))
  ELSE <<x>> \o s

\* list.sort(reverse=True)
RECURSIVE SortDesc(_)
SortDesc(s) == IF s = <<>> THEN <<>> ELSE InsertDesc(Head(s), SortDesc(Tail(s)))

\* Optional text: None or a string
NoneVal == [some |-> FALSE, text |-> <<>>]

Some(t) == [some |-> TRUE, text |-> t]

\* truth value of None / str
Truthy(o) == o.some /\ o.text # <<>>

(***************************************************************************)
(* 2. Model discovery                                                      *)
(***************************************************************************)
ModelPrefix == "models/gemini-"

Gemini25Flash == <<ModelPrefix, "2", ".", "5", "-", "f", "l", "a", "s", "h">>

Gemini20Flash == <<ModelPrefix, "2", ".", "0", "-", "f", "l", "a", "s", "h">>

Gemini15FlashUpper == <<ModelPrefix, "1", ".", "5", "-", "F", "L", "A", "S", "H">>

Gemini25Pro == <<ModelPrefix, "2", ".", "5", "-", "p", "r", "o">>

Gemini10Flash == <<ModelPrefix, "1", ".", "0", "-", "f", "l", "a", "s", "h">>

\* what client.models.list() can yield: name and supported_actions
Descriptors ==
  { [name |-> Gemini25Flash, actions |-> {"generateContent"}],
    [name |-> Gemini20Flash, actions |-> {"generateContent", "countTokens"}],
    [name |-> Gemini15FlashUpper, actions |-> {"generateContent"}],
    [name |-> Gemini25Pro, actions |-> {"generateContent"}],
    [name |-> Gemini10Flash, actions |-> {}] }

\* sequences of distinct elements of S of length at most n
InjSeqs(S, n) ==
  UNION { { s \in [1..k -> S] : \A i, j \in 1..k : i # j => s[i] # s[j] }
          : k \in 0..n }

\* outcomes of the listing call: it raises, or yields descriptors
Listings ==
  { [kind |-> "raised", models |-> <<>>] } \cup
  { [kind |-> "models", models |-> s] : s \in InjSeqs(Descriptors, MaxListing) }

\* the listing is a local of the discovery: gone once main goes on
NoListing == [kind |-> "gone", models |-> <<>>]

FlashTag == <<"f", "l", "a", "s", "h">>

\* the filter of line 52
IsFlashModel(m) ==
  Contains(Lower(m.name), FlashTag) /\ "generateContent" \in m.actions

RECURSIVE FilterFlash(_)
FilterFlash(ms) ==
  IF ms = <<>> THEN <<>>
  ELSE IF IsFlashModel(Head(ms)) THEN <<Head(ms).name>> \o FilterFlash(Tail(ms))
  ELSE FilterFlash(Tail(ms))

\* line 55
EmptyFallback == <<Gemini20Flash>>

\* line 58
ErrorFallback == <<Gemini25Flash, Gemini20Flash>>

NoFallbackOnEmpty(models) == models

\* line 55: return models if models else [...]
ModelsOrFallback(models) == IF models # <<>> THEN models ELSE EmptyFallback

get_available_flash_models(l) ==
  IF l.kind = "raised" THEN ErrorFallback
  ELSE ModelsOrFallback(SortDesc(FilterFlash(l.models)))

(***************************************************************************)
(* Generation calls                                                        *)
(***************************************************************************)
RateLimitCode == <<"4", "2", "9">>

\* str(e) of the errors a generation call raises
ErrMsgs ==
  { <<"4", "2", "9">>,
    <<"x", " ", "4", "2", "9", " ", "x">>,
    <<"5", "0", "0">>,
    <<"4", "2", " ", "9">> }

\* all strings over alphabet A of length at most n
AllStrings(A, n) == UNION { [1..k -> A] : k \in 0..n }

\* texts a generation call can answer with
Curated ==
  { <<" ">>,
    <<" ", "\n">>,
    <<" ", "a", " ">>,
    <<"a", "#", "#", "#", "b", "#", "#", "#", "c">>,
    <<"a", "#", "#", "#", "b", "#", "#", "#", "c", "#", "#", "#", "a">>,
    <<"a", "#", "#", "#", " ", "#", "#", "#", "b">>,
    <<"a", "\n", "b", "#", "#", "#", " ", "c", "\n">>,
    <<"KI", "JI", "1", ":", " ", "a", "#", "#", "#", "KI", "JI", "2", "FWCOLON", "b">>,
    <<"KI", "JI", "1", "2", ":", "\n", "a", "#", "#", "#", "b", "KI", "JI", "2", ":">>,
    <<"KI", "JI", ":", "a", "#", "#", "#", "KI", "JI", "1", "a">>,
    <<"KI", "JI", "1", ":">>,
    <<"#", "#", "#", "KI", "JI", "1", ":", "KI", "JI", "2", ":", "a">>,
    <<"I", " ", "2", " ", "4", ",", " ", "2", ",", " ", "4">>,
    <<"7", ",", " ", "9">>,
    <<"0">>,
    <<"0", ",", "1">>,
    <<"3", ",", "1", ",", "2">>,
    <<"1", ",", "2", ",", "3", ",", "4", ",", "5">>,
    <<"5", ",", "4", ",", "5", ",", "1", "0">>,
    <<"0", "3", " ", "6", "1">>,
    <<"2", "a", "1", "#", "#", "#", "4">>,
    <<"n", "o">> }

Responses == Curated \cup AllStrings({"#", "a"}, MaxSegLen)

\* outcomes of client.models.generate_content + response.text
Outcomes ==
  { [ok |-> FALSE, msg |-> m, text |-> NoneVal] : m \in ErrMsgs } \cup
  { [ok |-> TRUE, msg |-> <<>>, text |-> NoneVal] } \cup
  { [ok |-> TRUE, msg |-> <<>>, text |-> Some(t)] : t \in Responses }

\* line 72: time.sleep(2)
SleepSeconds == 2

InvokeEvent(i, o) ==
  [ev |-> "invoke", pos |-> i, ok |-> o.ok, msg |-> o.msg, text |-> o.text,
   secs |-> 0]

SleepEvent(i) ==
  [ev |-> "sleep", pos |-> i, ok |-> FALSE, msg |-> <<>>, text |-> NoneVal,
   secs |-> SleepSeconds]

SleepAlways(msg, i) == <<SleepEvent(i)>>

\* line 72: if "429" in str(e): time.sleep(2)
SleepOnRateLimit(msg, i) ==
  IF Contains(msg, RateLimitCode) THEN <<SleepEvent(i)>> ELSE <<>>

BreakOnError(i) == Len(DYNAMIC_MODELS) + 1

\* line 73: continue
AfterError(i) == i + 1

NeverReturns(o) == FALSE

\* line 68: if response.text
ReturnsText(o) == o.ok /\ Truthy(o.text)

RetPc == IF caller = "news" THEN "news_ret" ELSE "yt_ret"

(***************************************************************************)
(* 3. News summaries                                                       *)
(***************************************************************************)
\* feed entries: title and link
FeedEntries ==
  { [title |-> "T1", link |-> "L1"],
    [title |-> "T2", link |-> "L2"],
    [title |-> "T3", link |-> "L3"] }

Range(s) == { s[i] : i \in DOMAIN s }

\* random.sample(all_entries, k)
Samples(entries, k) ==
  { s \in InjSeqs(Range(entries), k) : Len(s) = k }

\* line 110: the text of an item without a summary
Placeholder == <<"(analysis failed)">>

Delimiter == <<"#", "#", "#">>

RECURSIVE StripNonEmpty(_)
StripNonEmpty(parts) ==
  IF parts = <<>> THEN <<>>
  ELSE IF Strip(Head(parts)) # <<>>
    THEN <<Strip(Head(parts))>> \o StripNonEmpty(Tail(parts))
    ELSE StripNonEmpty(Tail(parts))

SummariesKeepEmpty(res) ==
  IF Truthy(res)
    THEN LET parts == Split(res.text, Delimiter)
         IN [i \in 1..Len(parts) |-> Strip(parts[i])]
    ELSE <<>>

\* line 106
Summaries(res) ==
  IF Truthy(res) THEN StripNonEmpty(Split(res.text, Delimiter)) ELSE <<>>

\* number of consecutive digits of s from position i on
RECURSIVE DigitRun(_, _)
DigitRun(s, i) ==
  IF i <= Len(s) /\ s[i] \in Digits THEN 1 + DigitRun(s, i + 1) ELSE 0

\* line 111: re.sub(r'^KIJI\d+[:FWCOLON]\s*', '', summary)
StripLabel(s) ==
  IF Len(s) >= 2 /\ s[1] = "KI" /\ s[2] = "JI"
    THEN LET d == DigitRun(s, 3)
         IN IF d >= 1 /\ 3 + d <= Len(s) /\ s[3 + d] \in {":", "FWCOLON"}
              THEN LStrip(SubSeq(s, 4 + d, Len(s)))
              ELSE s
    ELSE s

\* line 114: clean_summary.replace('\n', '\n> ')
RECURSIVE Quote(_)
Quote(s) ==
  IF s = <<>> THEN <<>>
  ELSE IF Head(s) = "\n" THEN <<"\n", ">", " ">> \o Quote(Tail(s))
  ELSE <<Head(s)>> \o Quote(Tail(s))

Block(entry, summary) ==
  [title |-> entry.title, link |-> entry.link, quoted |-> Quote(StripLabel(summary))]

BlocksPerSegment(items, summaries) ==
  [i \in 1..Len(summaries) |-> Block(items[Min(i, Len(items))], summaries[i])]

\* lines 108-116
FormatBlocks(items, summaries) ==
  [i \in 1..Len(items) |->
     Block(items[i], IF i <= Len(summaries) THEN summaries[i] ELSE Placeholder)]

(***************************************************************************)
(* YouTube selection                                                       *)
(***************************************************************************)
\* line 151: items[:20]
CandidateCap == 20

\* the search result after the shuffle: videos named by their position
SearchItems(n) == [i \in 1..n |-> [id |-> i, title |-> i]]

\* re.findall(r'\d+', s)
RECURSIVE Findall(_)
Findall(s) ==
  IF s = <<>> THEN <<>>
  ELSE IF Head(s) \in Digits
    THEN LET d == DigitRun(s, 1)
         IN <<SubSeq(s, 1, d)>> \o Findall(SubSeq(s, d + 1, Len(s)))
    ELSE Findall(Tail(s))

\* int(n)
RECURSIVE ToInt(_)
ToInt(run) ==
  IF run = <<>> THEN 0
  ELSE 10 * ToInt(SubSeq(run, 1, Len(run) - 1)) + DigitVal(run[Len(run)])

RangeFromOne(c) == [i \in 1..c |-> i]

\* range(count)
DefaultIndices(c) == [i \in 1..c |-> i - 1]

\* line 157
Indices(res, c) ==
  IF Truthy(res)
    THEN LET runs == Findall(res.text)
         IN [i \in 1..Len(runs) |-> ToInt(runs[i]) - 1]
    ELSE DefaultIndices(c)

BelowLen(i, n) == i < n

\* line 161
InRange(i, n) == 0 <= i /\ i < n

\* candidates[idx], negative idx counting from the end
PyIndex(s, i) == IF i >= 0 THEN s[i + 1] ELSE s[Len(s) + i + 1]

\* lines 159-163; idx records the index an entry was built from
RECURSIVE SelectVideos(_, _)
SelectVideos(cands, indices) ==
  IF indices = <<>> THEN <<>>
  ELSE IF InRange(Head(indices), Len(cands))
    THEN LET c == PyIndex(cands, Head(indices))
         IN <<[idx |-> Head(indices), id |-> c.id, title |-> c.title]>>
              \o SelectVideos(cands, Tail(indices))
    ELSE SelectVideos(cands, Tail(indices))

NoResult == [kind |-> "none", items |-> <<>>]

(***************************************************************************)
(* State machine                                                           *)
(***************************************************************************)
Init ==
  /\ pc = "boot"
  /\ listed \in Listings
  /\ DYNAMIC_MODELS = <<>>
  /\ caller = "none"
  /\ selected = <<>>
  /\ candidates = <<>>
  /\ count = 0
  /\ idx = 0
  /\ trace = <<>>
  /\ ai_res = NoneVal
  /\ result = NoResult

\* line 60
Discover ==
  /\ pc = "boot"
  /\ DYNAMIC_MODELS' = get_available_flash_models(listed)
  /\ pc' = "idle"
  /\ UNCHANGED <<listed, caller, selected, candidates, count, idx, trace,
                 ai_res, result>>

\* lines 81-88: no feed has entries
NewsEmpty ==
  /\ pc = "idle"
  /\ \E c \in 1..MaxCount :
       /\ count' = c
       /\ caller' = "news"
       /\ result' = [kind |-> "no_news", items |-> <<>>]
       /\ pc' = "done"
       /\ listed' = NoListing
       /\ UNCHANGED <<DYNAMIC_MODELS, selected, candidates, idx, trace, ai_res>>

\* lines 81-105: entries found, sample, build the prompt, call generation
NewsStart ==
  /\ pc = "idle"
  /\ \E c \in 1..MaxCount, all_entries \in InjSeqs(FeedEntries, Cardinality(FeedEntries)) :
       /\ all_entries # <<>>
       /\ \E sel \in Samples(all_entries, Min(c, Len(all_entries))) :
            /\ selected' = sel
            /\ count' = c
            /\ caller' = "news"
            /\ idx' = 1
            /\ trace' = <<>>
            /\ pc' = "gen"
            /\ listed' = NoListing
            /\ UNCHANGED <<DYNAMIC_MODELS, candidates, ai_res, result>>

\* lines 142-143, 166-167: the search request raises
YoutubeError ==
  /\ pc = "idle"
  /\ \E c \in 1..MaxCount :
       /\ count' = c
       /\ caller' = "youtube"
       /\ result' = [kind |-> "error", items |-> <<>>]
       /\ pc' = "done"
       /\ listed' = NoListing
       /\ UNCHANGED <<DYNAMIC_MODELS, selected, candidates, idx, trace, ai_res>>

\* line 145: the search finds nothing
YoutubeEmpty ==
  /\ pc = "idle"
  /\ \E c \in 1..MaxCount :
       /\ count' = c
       /\ caller' = "youtube"
       /\ result' = [kind |-> "no_videos", items |-> <<>>]
       /\ pc' = "done"
       /\ listed' = NoListing
       /\ UNCHANGED <<DYNAMIC_MODELS, selected, candidates, idx, trace, ai_res>>

\* lines 143-155: candidates found, build the prompt, call generation
YoutubeStart ==
  /\ pc = "idle"
  /\ \E c \in 1..MaxCount, n \in 1..MaxCand :
       /\ candidates' = SubSeq(SearchItems(n), 1, Min(CandidateCap, n))
       /\ count' = c
       /\ caller' = "youtube"
       /\ idx' = 1
       /\ trace' = <<>>
       /\ pc' = "gen"
       /\ listed' = NoListing
       /\ UNCHANGED <<DYNAMIC_MODELS, selected, ai_res, result>>

\* lines 64-73: one iteration of the loop over DYNAMIC_MODELS
GenAttempt ==
  /\ pc = "gen"
  /\ idx <= Len(DYNAMIC_MODELS)
  /\ \E o \in Outcomes :
       IF ~o.ok
         THEN /\ trace' = trace \o <<InvokeEvent(idx, o)>> \o SleepOnRateLimit(o.msg, idx)
              /\ idx' = AfterError(idx)
              /\ UNCHANGED <<pc, ai_res>>
         ELSE IF ReturnsText(o)
           THEN /\ trace' = Append(trace, InvokeEvent(idx, o))
                /\ ai_res' = Some(Strip(o.text.text))
                /\ pc' = RetPc
                /\ UNCHANGED idx
           ELSE /\ trace' = Append(trace, InvokeEvent(idx, o))
                /\ idx' = idx + 1
                /\ UNCHANGED <<pc, ai_res>>
  /\ UNCHANGED <<listed, DYNAMIC_MODELS, caller, selected, candidates, count, result>>

\* line 74: the loop ends, return None
GenExhausted ==
  /\ pc = "gen"
  /\ idx > Len(DYNAMIC_MODELS)
  /\ ai_res' = NoneVal
  /\ pc' = RetPc
  /\ UNCHANGED <<listed, DYNAMIC_MODELS, caller, selected, candidates, count,
                 idx, trace, result>>

\* lines 106-118
NewsFinish ==
  /\ pc = "news_ret"
  /\ result' = [kind |-> "blocks", items |-> FormatBlocks(selected, Summaries(ai_res))]
  /\ pc' = "done"
  /\ UNCHANGED <<listed, DYNAMIC_MODELS, caller, selected, candidates, count,
                 idx, trace, ai_res>>

\* lines 157-165
YoutubeFinish ==
  /\ pc = "yt_ret"
  /\ LET videos == SelectVideos(candidates, Indices(ai_res, count))
     IN result' = IF videos # <<>>
                    THEN [kind |-> "videos",
                          items |-> SubSeq(videos, 1, Min(count, Len(videos)))]
                    ELSE [kind |-> "nothing_left", items |-> <<>>]
  /\ pc' = "done"
  /\ UNCHANGED <<listed, DYNAMIC_MODELS, caller, selected, candidates, count,
                 idx, trace, ai_res>>

\* lines 182-184: main goes on to its next call
Reset ==
  /\ pc = "done"
  /\ pc' = "idle"
  /\ caller' = "none"
  /\ selected' = <<>>
  /\ candidates' = <<>>
  /\ count' = 0
  /\ idx' = 0
  /\ trace' = <<>>
  /\ ai_res' = NoneVal
  /\ result' = NoResult
  /\ UNCHANGED <<listed, DYNAMIC_MODELS>>

Next ==
  \/ Discover
  \/ NewsEmpty
  \/ NewsStart
  \/ YoutubeError
  \/ YoutubeEmpty
  \/ YoutubeStart
  \/ GenAttempt
  \/ GenExhausted
  \/ NewsFinish
  \/ YoutubeFinish
  \/ Reset

Spec == Init /\ [][Next]_vars

TypeOK ==
  /\ pc \in {"boot", "idle", "gen", "news_ret", "yt_ret", "done"}
  /\ caller \in {"none", "news", "youtube"}
  /\ count \in 0..(MaxCount + 1)
  /\ idx \in 0..(Len(DYNAMIC_MODELS) + 1)

(***************************************************************************)
(* Properties                                                              *)
(***************************************************************************)
\* generate_with_fallback has returned to its caller
GenReturned ==
  \/ pc \in {"news_ret", "yt_ret"}
  \/ pc = "done" /\ result.kind \in {"blocks", "videos", "nothing_left"}

IsInvoke(e) == e.ev = "invoke"

\* the generation attempts of the current call, in order
Invokes == SelectSeq(trace, IsInvoke)

\* a text that is non-empty after trimming
TrimNonEmpty(t) == \E i \in DOMAIN t : t[i] \notin {" ", "\n", "\t"}

\* C1: the news result has exactly one block per selected item, in the
\* order of the items, block i carrying the title and link of item i,
\* whatever the generation call answered.
PositionalAlignment ==
  (pc = "done" /\ result.kind = "blocks") =>
    /\ Len(result.items) = Len(selected)
    /\ \A i \in 1..Len(selected) :
         /\ result.items[i].title = selected[i].title
         /\ result.items[i].link = selected[i].link

\* two items, four segments in the answer
PositionalAlignmentWitness ==
  /\ pc = "done"
  /\ result.kind = "blocks"
  /\ Len(selected) = 2
  /\ ai_res = Some(<<"a", "#", "#", "#", "b", "#", "#", "#", "c", "#", "#", "#", "a">>)
  /\ Len(result.items) = 2

\* C2: the attempts of one call are models 1..m of the list in order,
\* m <= k, and a call in which every attempt raised returns None after
\* exactly k attempts.
FallbackExhaustion ==
  /\ Len(Invokes) <= Len(DYNAMIC_MODELS)
  /\ \A i \in 1..Len(Invokes) : Invokes[i].pos = i
  /\ (GenReturned /\ \A i \in 1..Len(Invokes) : ~Invokes[i].ok) =>
       /\ ai_res = NoneVal
       /\ Len(Invokes) = Len(DYNAMIC_MODELS)

\* three models, all raise
FallbackExhaustionWitness ==
  /\ pc \in {"news_ret", "yt_ret"}
  /\ Len(DYNAMIC_MODELS) = 3
  /\ Len(Invokes) = 3
  /\ \A i \in 1..3 : ~Invokes[i].ok
  /\ ai_res = NoneVal

\* C3: an attempt that succeeds with a text that is non-empty after
\* trimming is the last attempt of the call: the call has returned that
\* text (trimmed, line 69), the attempts before it were models 1..j-1 in
\* order, and no later model is invoked.
FirstSuccessShortCircuit ==
  \A m \in 1..Len(trace) :
    (trace[m].ev = "invoke" /\ trace[m].ok /\ trace[m].text.some
       /\ TrimNonEmpty(trace[m].text.text)) =>
      /\ m = Len(trace)
      /\ GenReturned
      /\ ai_res = Some(Strip(trace[m].text.text))
      /\ Len(Invokes) = trace[m].pos
      /\ \A i \in 1..Len(Invokes) : Invokes[i].pos = i
      /\ \A i \in 1..(Len(Invokes) - 1) :
           ~(Invokes[i].ok /\ Invokes[i].text.some /\ TrimNonEmpty(Invokes[i].text.text))

\* three models, the second is the first to answer
FirstSuccessShortCircuitWitness ==
  /\ pc \in {"news_ret", "yt_ret"}
  /\ Len(DYNAMIC_MODELS) = 3
  /\ Len(Invokes) = 2
  /\ Invokes[2].ok
  /\ Invokes[2].text = Some(<<" ", "a", " ">>)
  /\ ai_res = Some(<<"a">>)

HasRateLimitCode(msg) ==
  \E i \in 1..(Len(msg) - 2) : msg[i] = "4" /\ msg[i + 1] = "2" /\ msg[i + 2] = "9"

\* C4: no model is invoked twice in one call; an attempt that raised an
\* error containing "429" is followed by one pause of the fixed interval
\* and then, if at all, by the attempt of the next model; an attempt that
\* raised another error is followed directly by the attempt of the next
\* model.
RateLimitNeverRetries ==
  \A i \in 1..Len(trace) :
    trace[i].ev = "invoke" =>
      /\ \A j \in 1..Len(trace) :
           (j # i /\ trace[j].ev = "invoke") => trace[j].pos # trace[i].pos
      /\ (~trace[i].ok /\ HasRateLimitCode(trace[i].msg)) =>
           /\ i + 1 <= Len(trace)
           /\ trace[i + 1].ev = "sleep"
           /\ trace[i + 1].secs = 2
           /\ i + 2 <= Len(trace) =>
                (trace[i + 2].ev = "invoke" /\ trace[i + 2].pos = trace[i].pos + 1)
      /\ (~trace[i].ok /\ ~HasRateLimitCode(trace[i].msg)) =>
           (i + 1 <= Len(trace) =>
              (trace[i + 1].ev = "invoke" /\ trace[i + 1].pos = trace[i].pos + 1))

\* model 1 is rate limited, model 2 fails otherwise, model 3 is invoked
RateLimitNeverRetriesWitness ==
  /\ Len(trace) = 4
  /\ trace[1].ev = "invoke" /\ trace[1].msg = <<"x", " ", "4", "2", "9", " ", "x">>
  /\ trace[2].ev = "sleep"
  /\ trace[3].ev = "invoke" /\ trace[3].pos = 2 /\ trace[3].msg = <<"4", "2", " ", "9">>
  /\ trace[4].ev = "invoke" /\ trace[4].pos = 3

\* C5: generate_with_fallback returns None or a non-empty text.
NeverReturnsEmptyText ==
  GenReturned => (ai_res = NoneVal \/ ai_res.text # <<>>)

\* the listed models that pass the filter of line 52
FlashNames == {Gemini25Flash, Gemini20Flash, Gemini15FlashUpper, Gemini10Flash}

Passing(l) ==
  { i \in 1..Len(l.models) :
      l.models[i].name \in FlashNames /\ "generateContent" \in l.models[i].actions }

DiscoveryFailed ==
  listed.kind = "raised" \/ (listed.kind = "models" /\ Passing(listed) = {})

\* C6 as stated: after a failed discovery the model list is the
\* two-element fallback list.
DiscoveryFallbackTwoElements ==
  (pc = "idle" /\ DiscoveryFailed) =>
    DYNAMIC_MODELS = <<Gemini25Flash, Gemini20Flash>>

\* C6 amended: discovery always ends with a non-empty model list; when
\* the listing call raised it is the two-element fallback list, when no
\* listed model passes the filter it is the one-element list of line 55.
DiscoveryFallback ==
  /\ pc # "boot" => DYNAMIC_MODELS # <<>>
  /\ (pc = "idle" /\ listed.kind = "raised") =>
       DYNAMIC_MODELS = <<Gemini25Flash, Gemini20Flash>>
  /\ (pc = "idle" /\ listed.kind = "models" /\ Passing(listed) = {}) =>
       DYNAMIC_MODELS = <<Gemini20Flash>>

\* models were listed, none passes the filter
DiscoveryFallbackWitness ==
  /\ pc = "idle"
  /\ listed.kind = "models"
  /\ Len(listed.models) = 2
  /\ Passing(listed) = {}
  /\ DYNAMIC_MODELS = <<Gemini20Flash>>

\* C7: every entry of the selection was built from an index idx with
\* 0 <= idx < len(candidates) and is the candidate at that index.
SelectionRangeSafety ==
  (pc = "done" /\ result.kind = "videos") =>
    \A i \in 1..Len(result.items) :
      /\ 0 <= result.items[i].idx
      /\ result.items[i].idx < Len(candidates)
      /\ result.items[i].id = candidates[result.items[i].idx + 1].id

\* the answer names position 0, a valid position and one beyond the list
SelectionRangeSafetyWitness ==
  /\ pc = "done"
  /\ result.kind = "videos"
  /\ Len(candidates) = 3
  /\ ai_res = Some(<<"0", "3", " ", "6", "1">>)
  /\ Len(result.items) = 1
  /\ result.items[1].id = 3

\* C8: after an absent generation result the selection is the first
\* min(count, len(candidates)) candidates in their order, hence not empty.
IdentityFallback ==
  (pc = "done" /\ caller = "youtube" /\ GenReturned /\ ai_res = NoneVal) =>
    /\ result.kind = "videos"
    /\ result.items # <<>>
    /\ Len(result.items) = Min(count, Len(candidates))
    /\ \A i \in 1..Len(result.items) : result.items[i].id = candidates[i].id

\* more candidates than count
IdentityFallbackWitness ==
  /\ pc = "done"
  /\ caller = "youtube"
  /\ GenReturned
  /\ ai_res = NoneVal
  /\ trace # <<>>
  /\ count = 2
  /\ Len(candidates) = 5
  /\ Len(result.items) = 2

RECURSIVE DropRepeats(_)
DropRepeats(s) ==
  IF s = <<>> THEN <<>>
  ELSE LET front == SubSeq(s, 1, Len(s) - 1)
       IN IF \E i \in 1..Len(front) : front[i] = s[Len(s)]
            THEN DropRepeats(front)
            ELSE Append(DropRepeats(front), s[Len(s)])

\* the 1-based positions the answer names, in range, each once
ReferenceSelection ==
  LET runs == Findall(ai_res.text)
      named == [i \in 1..Len(runs) |-> ToInt(runs[i])]
      InList(p) == 1 <= p /\ p <= Len(candidates)
      kept == DropRepeats(SelectSeq(named, InList))
  IN SubSeq(kept, 1, Min(count, Len(kept)))

\* C9: after a received answer the selection is the reference selection:
\* in-range positions in the order named, duplicates discarded, truncated.
SelectionEqualsReference ==
  (pc = "done" /\ caller = "youtube" /\ GenReturned /\ Truthy(ai_res)) =>
    /\ Len(result.items) = Len(ReferenceSelection)
    /\ \A i \in 1..Len(ReferenceSelection) :
         result.items[i].id = candidates[ReferenceSelection[i]].id

NotEmpty(t) == t # <<>>

\* the pieces of the answer that are non-empty after trimming
Segments ==
  IF ai_res.some
    THEN LET parts == Split(ai_res.text, <<"#", "#", "#">>)
         IN SelectSeq([i \in 1..Len(parts) |-> Strip(parts[i])], NotEmpty)
    ELSE <<>>

\* C10: block i carries segment i, without its leading item label and
\* block-quoted, when there is a segment i, and the placeholder otherwise.
SegmentAssignment ==
  (pc = "done" /\ result.kind = "blocks") =>
    /\ Len(result.items) = Len(selected)
    /\ \A i \in 1..Len(selected) :
         result.items[i].quoted =
           IF i <= Len(Segments)
             THEN Quote(StripLabel(Segments[i]))
             ELSE <<"(analysis failed)">>

\* three items, two labelled segments
SegmentAssignmentWitness ==
  /\ pc = "done"
  /\ result.kind = "blocks"
  /\ Len(selected) = 3
  /\ ai_res = Some(<<"KI", "JI", "1", ":", " ", "a", "#", "#", "#", "KI", "JI", "2", "FWCOLON", "b">>)
  /\ result.items[1].quoted = <<"a">>
  /\ result.items[2].quoted = <<"b">>
  /\ result.items[3].quoted = <<"(analysis failed)">>
=============================================================================
